---- MODULE Spec2Model ----
(***************************************************************************)
(* Model of the trends API of mtc-backend: the request handlers of         *)
(* src/api.py with their three file-backed cache slots and the in-memory   *)
(* per-query tweet cache, and the collectors they call                     *)
(* (src/collectors/twitter_search.py, google_trends_serpapi.py,            *)
(* google_trends_rss.py).                                                  *)
(*                                                                         *)
(* Time is counted in ticks, TicksPerSec ticks to the second, so that the  *)
(* float ages the handlers compute and the int() they apply to them are    *)
(* distinct things.  One step of the model is one whole request (or one    *)
(* advance of the clock); resp is the response of the request handled by   *)
(* the last step and obs what that handler did while producing it.         *)
(*                                                                         *)
(* The handlers of different sources share no state (api.py:36-41: one     *)
(* file per source, one dict for the tweet search), so a behaviour         *)
(* exercises the endpoints of one source, chosen in Init.                  *)
(***************************************************************************)
EXTENDS Integers, Sequences, FiniteSets, TLC

VARIABLES source, now, file, mem, resp, obs, trial, proc

vars == <<source, now, file, mem, resp, obs, trial, proc>>

-----------------------------------------------------------------------------
(* Bounds of the model *)

TicksPerSec == 2
MaxPeriods == 1
MaxLimit == 2
MaxItems == 3
MaxProcs == 2

-----------------------------------------------------------------------------
(* Program constants *)

TWITTER_TTL == 3600
GOOGLE_TTL == 43200
RSS_TTL == 7200
TWITTER_CACHE_TTL == 3600
TOP_N == 20
SEARCH_LIMIT_CAP == 20
SEARCH_EXTRA == 5
API_MAX_RESULTS == 100

Slots == {"twitter", "google", "rss"}
Sources == Slots \cup {"search"}

SlotTtl(slot) ==
    CASE slot = "twitter" -> TWITTER_TTL
      [] slot = "google" -> GOOGLE_TTL
      [] slot = "rss" -> RSS_TTL
      [] slot = "search" -> TWITTER_CACHE_TTL

(* The instants at which the clock is sampled: the start, and one tick     *)
(* before and exactly at every whole multiple of the source's ttl.         *)
Instants(src) ==
    {0} \cup { k * SlotTtl(src) * TicksPerSec + e : k \in 1..MaxPeriods, e \in {-1, 0} }

(* The limit parameter of a trends request, and of a tweet search (one     *)
(* below and one above the cap of api.py:247)                              *)
Limits == 0..MaxLimit
SearchLimits == {MaxLimit, SEARCH_LIMIT_CAP + MaxLimit}
Geos == {"US", "GB"}

-----------------------------------------------------------------------------
(* Python built-ins the handlers rely on *)

Min(a, b) == IF a < b THEN a ELSE b

(* seq[:n] for n >= 0 *)
Take(seq, n) == SubSeq(seq, 1, Min(n, Len(seq)))

(* A list as an explicit value: TLC keeps [i \in 1..n |-> e] unevaluated   *)
(* and computes e again at every application.                              *)
List(seq) == seq \o <<>>

(* Rounds to the nearest second above instead of truncating *)
IntSecondsRounded(ticks) == (ticks + TicksPerSec - 1) \div TicksPerSec

(* int(x) of a non-negative float age given in ticks *)
IntSeconds(ticks) == ticks \div TicksPerSec

(* Sorts ascending: reverse=True forgotten *)
SortAscending(seq, field) ==
    LET position == List([ i \in 1..Len(seq) |->
                             1 + Cardinality({ j \in 1..Len(seq) : seq[j][field] < seq[i][field] })
                               + Cardinality({ j \in 1..(i - 1) : seq[j][field] = seq[i][field] }) ])
    IN List([ p \in 1..Len(seq) |-> seq[CHOOSE i \in 1..Len(seq) : position[i] = p] ])

(* sorted(seq, key=...)[::-1]: descending, but equal keys come out in      *)
(* reverse order                                                           *)
SortReversed(seq, field) ==
    LET position == List([ i \in 1..Len(seq) |->
                             1 + Cardinality({ j \in 1..Len(seq) : seq[j][field] > seq[i][field] })
                               + Cardinality({ j \in (i + 1)..Len(seq) :
                                                 seq[j][field] = seq[i][field] }) ])
    IN List([ p \in 1..Len(seq) |-> seq[CHOOSE i \in 1..Len(seq) : position[i] = p] ])

(* list.sort(key=lambda x: x[field], reverse=True): stable, descending.    *)
(* The element at index i lands after every element with a greater key     *)
(* and after the elements with an equal key that stood before it.          *)
SortedPosition(seq, field, i) ==
    1 + Cardinality({ j \in 1..Len(seq) : seq[j][field] > seq[i][field] })
      + Cardinality({ j \in 1..(i - 1) : seq[j][field] = seq[i][field] })

SortDesc(seq, field) ==
    LET position == List([ i \in 1..Len(seq) |-> SortedPosition(seq, field, i) ])
    IN List([ p \in 1..Len(seq) |-> seq[CHOOSE i \in 1..Len(seq) : position[i] = p] ])

(* A dict filled from seq in order, keyed by seq[i][field], keeps its keys *)
(* in insertion order: the indices of seq that insert a new key, in order. *)
InsertionOrder(seq, field) ==
    LET inserts == List([ i \in 1..Len(seq) |->
                            \A j \in 1..(i - 1) : seq[j][field] # seq[i][field] ])
        nth == List([ i \in 1..Len(seq) |->
                        Cardinality({ j \in 1..i : inserts[j] }) ])
    IN List([ k \in 1..Cardinality({ i \in 1..Len(seq) : inserts[i] }) |->
                CHOOSE i \in 1..Len(seq) : inserts[i] /\ nth[i] = k ])

(* The indices of seq that update the key seq[i][field] *)
SameKey(seq, field, i) == { j \in 1..Len(seq) : seq[j][field] = seq[i][field] }

(* d[key][field] += seq[j][field] for every j of idx, from 0 *)
RECURSIVE SumOver(_, _, _)
SumOver(seq, idx, field) ==
    IF idx = {} THEN 0
    ELSE LET j == CHOOSE j \in idx : TRUE
         IN seq[j][field] + SumOver(seq, idx \ {j}, field)

-----------------------------------------------------------------------------
(* Cache primitives *)

(* Off by one: an entry exactly ttl old still counts as fresh *)
IsFreshInclusive(cache_age, ttl) == cache_age <= ttl * TicksPerSec

(* api.py:201, 297, 347: cache_age < ttl, both in ticks here *)
IsFresh(cache_age, ttl) == cache_age < ttl * TicksPerSec

(* os.path.exists(path) *)
Exists(slot) == file[slot] # <<>>

(* datetime.now().timestamp() - os.path.getmtime(path) *)
CacheAge(slot) == now - file[slot][1].mtime

(* The length of the JSON text of a document, in units that grow with its  *)
(* number of trends; an empty file has length 0.                           *)
Size(doc) == 1 + Len(doc.trends)

(* with open(path, 'w') as f: json.dump(doc, f), nothing else touching     *)
(* the file meanwhile.  A file is its modification time, the document      *)
(* whose text stands at its start, and its length.                         *)
WriteFile(slot, doc) ==
    [file EXCEPT ![slot] = << [mtime |-> now, doc |-> doc, size |-> Size(doc)] >>]

(* open(path, 'w'): the file is created or cut to length 0 *)
OpenForWrite(slot) ==
    [file EXCEPT ![slot] = << [mtime |-> now, doc |-> [count |-> 0, trends |-> <<>>],
                               size |-> 0] >>]

(* json.dump(doc, f) and the close of f, by a writer that opened the file  *)
(* earlier: the text goes to the start of the file, over what is there     *)
(* now, and what stands beyond its end stays.                              *)
Dump(slot, doc) ==
    [file EXCEPT ![slot] =
        << [mtime |-> now, doc |-> doc,
            size |-> IF @[1].size > Size(doc) THEN @[1].size ELSE Size(doc)] >>]

(* json.load(f) succeeds: the file holds the text of one document *)
Readable(slot) == file[slot][1].size = Size(file[slot][1].doc)

-----------------------------------------------------------------------------
(* TwitterTrendsCollector (collectors/twitter_search.py) *)

(* A raw hashtag of a tweet is a name in some letter case; tag.lower()     *)
(* forgets the case.                                                       *)
Lower(tag) == [tag EXCEPT !.upper = FALSE]

(* likes + 2 * retweets + replies *)
Engagement(tweet) == tweet.like_count + tweet.retweet_count * 2 + tweet.reply_count

(* lines 71-86: the (tag, engagement) pairs the scoring loop of lines      *)
(* 86-95 runs over, for the first k tweets, in order                       *)
RECURSIVE TagOccurrences(_, _)
TagOccurrences(tweets, k) ==
    IF k = 0 THEN <<>>
    ELSE TagOccurrences(tweets, k - 1)
         \o [ i \in 1..Len(tweets[k].hashtags) |->
                [tag |-> Lower(tweets[k].hashtags[i]),
                 engagement |-> Engagement(tweets[k])] ]

(* lines 69-95: hashtag_stats, a dict, as the sequence of its entries in   *)
(* insertion order                                                         *)
HashtagStats(tweets) ==
    LET occ == TagOccurrences(tweets, Len(tweets))
        order == InsertionOrder(occ, "tag")
    IN List([ k \in 1..Len(order) |->
                LET i == order[k]
                IN [tag |-> occ[i].tag,
                    count |-> Cardinality(SameKey(occ, "tag", i)),
                    total_engagement |-> SumOver(occ, SameKey(occ, "tag", i), "engagement")] ])

(* The pairs (count, total), count <= 8 and total <= 128, for which the    *)
(* double product count * (total / count) falls just below total.          *)
InexactProducts == { <<7, 61>>, <<7, 115>>, <<7, 122>> }

(* int(total_engagement / count) *)
AvgEngagement(count, total) == total \div count

(* int(count * (total_engagement / count)), the arithmetic being in doubles *)
VelocityScore(count, total) ==
    IF <<count, total>> \in InexactProducts THEN total - 1 ELSE total

(* lines 104-119 *)
ExtractHashtags(tweets) ==
    LET stats == HashtagStats(tweets)
        ranked == List([ i \in 1..Len(stats) |->
                      [hashtag |-> stats[i].tag,
                       mentions |-> stats[i].count,
                       total_engagement |-> stats[i].total_engagement,
                       avg_engagement |-> AvgEngagement(stats[i].count, stats[i].total_engagement),
                       velocity_score |-> VelocityScore(stats[i].count, stats[i].total_engagement)] ])
    IN SortDesc(ranked, "velocity_score")

(* The answer of search_recent_tweets for one category: "error" (a non-200 *)
(* status or an exception, lines 47-54), "nodata" (200 without a data      *)
(* key), "malformed" (200 with a data key that is no list of tweets) or    *)
(* "data".  Line 145: only an answer with a data key is read.              *)
HasData(answer) == answer.kind \in {"data", "malformed"}

(* lines 142-147 *)
RECURSIVE AllHashtags(_)
AllHashtags(answers) ==
    IF answers = <<>> THEN <<>>
    ELSE (IF HasData(Head(answers)) THEN ExtractHashtags(Head(answers).data) ELSE <<>>)
         \o AllHashtags(Tail(answers))

(* Overwrites the values of a tag with the last ones seen *)
CombineLastSeen(items) ==
    LET order == InsertionOrder(items, "hashtag")
    IN List([ k \in 1..Len(order) |->
                LET same == SameKey(items, "hashtag", order[k])
                    last == CHOOSE j \in same : \A l \in same : l <= j
                IN [hashtag |-> items[last].hashtag,
                    mentions |-> items[last].mentions,
                    total_engagement |-> items[last].total_engagement,
                    velocity_score |-> items[last].velocity_score] ])

(* Keeps the first values seen for a tag instead of adding them up *)
CombineFirstSeen(items) ==
    LET order == InsertionOrder(items, "hashtag")
    IN List([ k \in 1..Len(order) |->
                [hashtag |-> items[order[k]].hashtag,
                 mentions |-> items[order[k]].mentions,
                 total_engagement |-> items[order[k]].total_engagement,
                 velocity_score |-> items[order[k]].velocity_score] ])

(* lines 150-163: combined, a dict, as the sequence of its entries in      *)
(* insertion order                                                         *)
Combine(items) ==
    LET order == InsertionOrder(items, "hashtag")
    IN
    List([ k \in 1..Len(order) |->
             LET i == order[k]
                 same == SameKey(items, "hashtag", i)
             IN [hashtag |-> items[i].hashtag,
                 mentions |-> SumOver(items, same, "mentions"),
                 total_engagement |-> SumOver(items, same, "total_engagement"),
                 velocity_score |-> SumOver(items, same, "velocity_score")] ])

(* Counts the ranks from 0, as enumerate does *)
AddRankFromZero(trends) ==
    List([ i \in 1..Len(trends) |->
             [hashtag |-> trends[i].hashtag,
              mentions |-> trends[i].mentions,
              total_engagement |-> trends[i].total_engagement,
              velocity_score |-> trends[i].velocity_score,
              rank |-> i - 1,
              source |-> "twitter_search",
              topic |-> <<>>] ])

(* lines 170-173; a trend of the collector has no topic key *)
AddRank(trends) ==
    List([ i \in 1..Len(trends) |->
             [hashtag |-> trends[i].hashtag,
              mentions |-> trends[i].mentions,
              total_engagement |-> trends[i].total_engagement,
              velocity_score |-> trends[i].velocity_score,
              rank |-> i,
              source |-> "twitter_search",
              topic |-> <<>>] ])

(* The result a collector hands to its caller; raised: an exception left   *)
(* the collector instead.                                                  *)
Raised == [raised |-> TRUE, success |-> FALSE, count |-> 0, trends |-> <<>>,
           error |-> "exception"]

Failure(error) == [raised |-> FALSE, success |-> FALSE, count |-> 0, trends |-> <<>>,
                   error |-> error]

(* line 178 *)
TopTrends(final_trends) == Take(final_trends, TOP_N)

(* lines 149-173: final_trends *)
FinalTrends(answers) ==
    AddRank(SortDesc(Combine(AllHashtags(answers)), "velocity_score"))

(* lines 140-180 *)
FindTrendingTopics(answers) ==
    IF \E i \in 1..Len(answers) : answers[i].kind = "malformed"
    THEN Raised
    ELSE LET final_trends == FinalTrends(answers)
         IN [raised |-> FALSE, success |-> TRUE, count |-> Len(final_trends),
             trends |-> TopTrends(final_trends), error |-> ""]

-----------------------------------------------------------------------------
(* google_trends_serpapi.get_trending_searches *)

(* The values the upstream puts under the error key of a body *)
BodyErrors == {"quota exceeded", "invalid key"}

(* What the upstream does on one call.  "nokey": the credentials file      *)
(* cannot be read (load_api_key, outside the try); "neterr": a             *)
(* RequestException without a response (connection, timeout); "httperr":   *)
(* an error status, which raise_for_status turns into an HTTPError before  *)
(* the body is read, the body carrying an error key; "errfield": a 200     *)
(* whose body has an error key; "ok": a 200 with items trending searches.  *)
GoogleUpstreams ==
    { [kind |-> k, items |-> 0, error |-> ""] : k \in {"nokey", "neterr"} }
    \cup { [kind |-> k, items |-> 0, error |-> e] : k \in {"httperr", "errfield"},
                                                     e \in BodyErrors }
    \cup { [kind |-> "ok", items |-> n, error |-> ""] : n \in {0, 1, MaxItems} }

(* The i-th trending search the upstream ranks for a geo *)
TrendingSearch(geo, i) == [query |-> <<geo, i>>]

(* lines 63-65: if limit: trending_searches[:limit] *)
ApplyLimit(trending_searches, limit) ==
    IF limit # 0 THEN Take(trending_searches, limit) ELSE trending_searches

(* Does not look for an error key in the body: a 200 with one is read as   *)
(* a body without trending searches                                        *)
GetTrendingSearchesUnchecked(geo, limit, up) ==
    CASE up.kind = "nokey" -> Raised
      [] up.kind = "neterr" -> Failure("ConnectionError")
      [] up.kind = "httperr" -> Failure("HTTPError")
      [] up.kind = "errfield" -> Failure("No trending searches found")
      [] up.kind = "ok" /\ up.items = 0 -> Failure("No trending searches found")
      [] OTHER ->
           LET data == List([ i \in 1..up.items |-> TrendingSearch(geo, i) ])
               trending_searches == ApplyLimit(data, limit)
           IN [raised |-> FALSE, success |-> TRUE, count |-> Len(trending_searches),
               total_available |-> Len(data), geo |-> geo,
               source |-> "serpapi_trending_now", trends |-> trending_searches,
               error |-> ""]

(* lines 32-91; the error of a failure is the value of its error key:     *)
(* str(e) of the exception, or data['error']                               *)
GetTrendingSearches(geo, limit, up) ==
    CASE up.kind = "nokey" -> Raised
      [] up.kind = "neterr" -> Failure("ConnectionError")
      [] up.kind = "httperr" -> Failure("HTTPError")
      [] up.kind = "errfield" -> Failure(up.error)
      [] up.kind = "ok" /\ up.items = 0 -> Failure("No trending searches found")
      [] OTHER ->
           LET data == List([ i \in 1..up.items |-> TrendingSearch(geo, i) ])
               trending_searches == ApplyLimit(data, limit)
           IN [raised |-> FALSE, success |-> TRUE, count |-> Len(trending_searches),
               total_available |-> Len(data), geo |-> geo,
               source |-> "serpapi_trending_now", trends |-> trending_searches,
               error |-> ""]

-----------------------------------------------------------------------------
(* GoogleTrendsRSS.fetch_trends (collectors/google_trends_rss.py) *)

(* "http": a status other than 200; "neterr": a RequestException;          *)
(* "parse": a body that is no well-formed XML; "ok": a feed of items.      *)
RssUpstreams ==
    { [kind |-> k, items |-> 0] : k \in {"http", "neterr", "parse"} }
    \cup { [kind |-> "ok", items |-> n] : n \in {0, 1, MaxItems} }

(* lines 49-85: the idx-th item of the feed *)
RssTrend(geo, idx) ==
    [rank |-> idx, topic |-> <<geo, idx>>, source |-> "google_trends_rss", geo |-> geo]

(* lines 27-112 *)
FetchTrends(geo, up) ==
    CASE up.kind = "http" -> Failure("HTTP status")
      [] up.kind = "neterr" -> Failure("Network error")
      [] up.kind = "parse" -> Failure("XML parse error")
      [] OTHER ->
           LET trends == List([ i \in 1..up.items |-> RssTrend(geo, i) ])
           IN [raised |-> FALSE, success |-> TRUE, count |-> Len(trends),
               trends |-> trends, geo |-> geo, error |-> ""]

-----------------------------------------------------------------------------
(* Responses and what a handler did *)

NoResp == [code |-> 0, body |-> "none", items |-> <<>>, count |-> 0,
           cached |-> FALSE, cache_age_seconds |-> -1, geo |-> "", query |-> "",
           error |-> ""]

(* jsonify({"error": ..., "message": ...}), code *)
ErrorResp(code, message) == [NoResp EXCEPT !.code = code, !.body = "error", !.error = message]

(* An exception that leaves the view function: the framework answers 500 *)
CrashResp == [NoResp EXCEPT !.code = 500, !.body = "crash"]

(* endpoint, the request's parameters, and what the handler did:           *)
(*   found: the slot held an entry when the request came; stored_at: when  *)
(*   that entry was written; cacheRead: the handler read the entry's       *)
(*   payload; collectorCalls: calls of the collector; collector: how the   *)
(*   call ended ("ok", "failed": success false, "raised"); upstreamCalls   *)
(*   and upstreamOk: calls of the upstream, and how many of them the       *)
(*   upstream answered without an error; upstream: what the upstream did   *)
(*   on the call, <<>> when the collector was not called.                  *)
NoObs == [endpoint |-> "none", limit |-> 0, fresh |-> FALSE, geo |-> "", query |-> "",
          found |-> FALSE, stored_at |-> -1, cacheRead |-> FALSE,
          collectorCalls |-> 0, collector |-> "none",
          upstreamCalls |-> 0, upstreamOk |-> 0, upstream |-> <<>>]

Request(endpoint, limit, fresh, geo) ==
    [NoObs EXCEPT !.endpoint = endpoint, !.limit = limit, !.fresh = fresh, !.geo = geo]

(* The slot as the request finds it *)
Lookup(req, slot) ==
    IF Exists(slot)
    THEN [req EXCEPT !.found = TRUE, !.stored_at = file[slot][1].mtime]
    ELSE req

(* Forgets the fresh parameter *)
ServesCacheForced(slot, fresh) ==
    Exists(slot) /\ IsFresh(CacheAge(slot), SlotTtl(slot))

(* not fresh and os.path.exists(path) and cache_age < ttl *)
ServesCache(slot, fresh) ==
    ~fresh /\ Exists(slot) /\ IsFresh(CacheAge(slot), SlotTtl(slot))

Outcome(result) ==
    IF result.raised THEN "raised" ELSE IF result.success THEN "ok" ELSE "failed"

Fetched(req, result, calls, ok) ==
    [req EXCEPT !.collectorCalls = 1, !.collector = Outcome(result),
                !.upstreamCalls = calls, !.upstreamOk = ok]

Upstream(req, up) == [req EXCEPT !.upstream = <<up>>]

(* Falls back to the entry of the slot, however old, when there is one *)
FailureResponseStale(slot, message) ==
    IF Exists(slot)
    THEN [NoResp EXCEPT !.code = 200, !.body = "trends",
                        !.items = file[slot][1].doc.trends,
                        !.count = file[slot][1].doc.count, !.cached = TRUE]
    ELSE ErrorResp(500, message)

(* lines 233-237, 323-329, 370-374: the answer to a failed fetch *)
FailureResponse(slot, message) == ErrorResp(500, message)

-----------------------------------------------------------------------------
(* GET /trends/google (api.py:285-329) *)

(* lines 301-303 *)
LimitCached(trends, limit) ==
    IF limit # 0 /\ limit < Len(trends) THEN Take(trends, limit) ELSE trends

GoogleUpstreamOk(up) == IF up.kind = "ok" THEN 1 ELSE 0

GetGoogleTrends(limit, fresh, geo, up) ==
    /\ source = "google"
    /\ LET req == Lookup(Request("google", limit, fresh, geo), "google")
       IN IF ServesCache("google", fresh)
          THEN LET cached_data == file["google"][1].doc
               IN /\ resp' = [NoResp EXCEPT !.code = 200, !.body = "trends",
                                !.items = LimitCached(cached_data.trends, limit),
                                !.count = cached_data.count,
                                !.cached = TRUE,
                                !.cache_age_seconds = IntSeconds(CacheAge("google")),
                                !.geo = cached_data.geo]
                  /\ obs' = [req EXCEPT !.cacheRead = TRUE]
                  /\ UNCHANGED file
          ELSE LET result == GetTrendingSearches(geo, limit, up)
               IN /\ obs' = Upstream(Fetched(req, result, IF up.kind = "nokey" THEN 0 ELSE 1,
                                             GoogleUpstreamOk(up)), up)
                  /\ IF result.raised
                     THEN resp' = CrashResp /\ UNCHANGED file
                     ELSE IF result.success
                     THEN /\ file' = WriteFile("google", [count |-> result.count,
                                        total_available |-> result.total_available,
                                        geo |-> result.geo, trends |-> result.trends,
                                        cached |-> FALSE])
                          /\ resp' = [NoResp EXCEPT !.code = 200, !.body = "trends",
                                        !.items = result.trends, !.count = result.count,
                                        !.geo = result.geo]
                     ELSE /\ resp' = FailureResponse("google", result.error)
                          /\ UNCHANGED file
    /\ UNCHANGED <<source, now, mem, trial, proc>>

-----------------------------------------------------------------------------
(* GET /trends/google/rss (api.py:332-374) *)

RssUpstreamOk(up) == IF up.kind = "ok" THEN 1 ELSE 0

GetGoogleTrendsRss(limit, fresh, geo, up) ==
    /\ source = "rss"
    /\ LET req == Lookup(Request("rss", limit, fresh, geo), "rss")
       IN IF ServesCache("rss", fresh)
          THEN LET cached_data == file["rss"][1].doc
               IN /\ resp' = [NoResp EXCEPT !.code = 200, !.body = "trends",
                                !.items = Take(cached_data.trends, limit),
                                !.count = cached_data.count,
                                !.cached = TRUE,
                                !.cache_age_seconds = IntSeconds(CacheAge("rss")),
                                !.geo = cached_data.geo]
                  /\ obs' = [req EXCEPT !.cacheRead = TRUE]
                  /\ UNCHANGED file
          ELSE LET result == FetchTrends(geo, up)
               IN /\ obs' = Upstream(Fetched(req, result, 1, RssUpstreamOk(up)), up)
                  /\ IF result.success
                     THEN /\ file' = WriteFile("rss", [count |-> result.count,
                                        trends |-> result.trends, geo |-> result.geo])
                          /\ resp' = [NoResp EXCEPT !.code = 200, !.body = "trends",
                                        !.items = Take(result.trends, limit),
                                        !.count = result.count, !.geo = result.geo]
                     ELSE /\ resp' = FailureResponse("rss", result.error)
                          /\ UNCHANGED file
    /\ UNCHANGED <<source, now, mem, trial, proc>>

-----------------------------------------------------------------------------
(* GET /trends, GET /trends/twitter and POST /trends/refresh               *)
(* (api.py:164-237, 377-398)                                               *)

NUM_CATEGORIES == 3

Tag(n) == [name |-> n, upper |-> FALSE]
TagUpper(n) == [name |-> n, upper |-> TRUE]

Tweet(likes, retweets, replies, hashtags) ==
    [like_count |-> likes, retweet_count |-> retweets, reply_count |-> replies,
     hashtags |-> hashtags]

(* Three samples of tweets: two tweets sharing a tag in two letter cases;  *)
(* one tweet with two tags; one tweet carrying TOP_N + 1 tags.             *)
SampleA == << Tweet(10, 5, 2, <<Tag(1)>>), Tweet(1, 0, 0, <<TagUpper(1), Tag(2)>>) >>
SampleB == << Tweet(2, 0, 1, <<Tag(2), Tag(3)>>) >>
SampleC == << Tweet(1, 0, 0, List([ i \in 1..(TOP_N + 1) |-> Tag(2 + i) ])) >>

(* Seven tweets with one tag and a total engagement of 61 *)
SampleD == List([ i \in 1..7 |-> Tweet(IF i = 7 THEN 7 ELSE 9, 0, 0, <<Tag(TOP_N + 10)>>) ])

(* One tweet that carries one tag twice, in two letter cases *)
SampleE == << Tweet(3, 0, 0, <<Tag(1), TagUpper(1)>>) >>

AnswerError == [kind |-> "error", data |-> <<>>]
AnswerNoData == [kind |-> "nodata", data |-> <<>>]
AnswerMalformed == [kind |-> "malformed", data |-> <<>>]
AnswerData(tweets) == [kind |-> "data", data |-> tweets]

(* What the three category searches of one find_trending_topics answer *)
TwitterUpstreams ==
    { <<AnswerError, AnswerError, AnswerError>>,
      <<AnswerNoData, AnswerError, AnswerNoData>>,
      <<AnswerData(SampleA), AnswerError, AnswerData(SampleB)>>,
      <<AnswerData(SampleA), AnswerData(SampleB), AnswerData(SampleC)>>,
      <<AnswerData(SampleB), AnswerMalformed, AnswerError>> }

(* The category searches made: all of them, or those up to the first       *)
(* answer extract_hashtags raises on.                                      *)
AnswersAsked(answers) ==
    LET bad == { i \in 1..Len(answers) : answers[i].kind = "malformed" }
    IN IF bad = {} THEN Len(answers) ELSE CHOOSE i \in bad : \A j \in bad : i <= j

AnswersOk(answers) ==
    Cardinality({ i \in 1..Len(answers) : answers[i].kind \in {"data", "nodata"} })

(* lines 206-208, 221-223: trend['topic'] = trend['hashtag'] where missing *)
NormalizeTrend(trend) ==
    IF trend.topic = <<>> THEN [trend EXCEPT !.topic = <<trend.hashtag>>] ELSE trend

Normalize(trends) == List([ i \in 1..Len(trends) |-> NormalizeTrend(trends[i]) ])

GetTwitterTrends(limit, fresh, up) ==
    /\ source = "twitter"
    /\ LET req == Lookup(Request("twitter", limit, fresh, ""), "twitter")
       IN IF ServesCache("twitter", fresh)
          THEN LET cached_data == file["twitter"][1].doc
               IN /\ resp' = [NoResp EXCEPT !.code = 200, !.body = "trends",
                                !.items = Take(Normalize(cached_data.trends), limit),
                                !.count = cached_data.count,
                                !.cached = TRUE,
                                !.cache_age_seconds = IntSeconds(CacheAge("twitter"))]
                  /\ obs' = [req EXCEPT !.cacheRead = TRUE]
                  /\ UNCHANGED file
          ELSE LET result == FindTrendingTopics(up)
                   trends == Normalize(result.trends)
               IN /\ obs' = Upstream(Fetched(req, result, AnswersAsked(up), AnswersOk(up)), up)
                  /\ IF result.raised
                     THEN resp' = CrashResp /\ UNCHANGED file
                     ELSE IF result.success
                     THEN /\ file' = WriteFile("twitter", [count |-> result.count,
                                                           trends |-> trends])
                          /\ resp' = [NoResp EXCEPT !.code = 200, !.body = "trends",
                                        !.items = Take(trends, limit),
                                        !.count = result.count]
                     ELSE /\ resp' = FailureResponse("twitter", result.error)
                          /\ UNCHANGED file
    /\ UNCHANGED <<source, now, mem, trial, proc>>

RefreshTrends(up) ==
    /\ source = "twitter"
    /\ LET result == FindTrendingTopics(up)
       IN /\ obs' = Upstream(Fetched(Lookup(Request("refresh", 0, TRUE, ""), "twitter"),
                                   result, AnswersAsked(up), AnswersOk(up)), up)
          /\ IF result.raised
             THEN resp' = CrashResp /\ UNCHANGED file
             ELSE IF result.success
             THEN /\ file' = WriteFile("twitter", [count |-> result.count,
                                                   trends |-> result.trends])
                  /\ resp' = [NoResp EXCEPT !.code = 200, !.body = "refreshed",
                                !.count = result.count]
             ELSE /\ resp' = FailureResponse("twitter", result.error)
                  /\ UNCHANGED file
    /\ UNCHANGED <<source, now, mem, trial, proc>>

-----------------------------------------------------------------------------
(* GET /trends/twitter/search (api.py:41-135, 240-282) *)

(* A query is a word in some letter case; "" is the missing parameter *)
Query(word, upper) == [word |-> word, upper |-> upper]
Queries == { Query("", FALSE), Query("ai", FALSE), Query("ai", TRUE), Query("btc", FALSE) }

(* line 250: hashlib.md5(query.lower().encode()).hexdigest(); the digest   *)
(* is taken to be injective on Queries, so the lowered query is the key.   *)
CacheKey(query) == [query EXCEPT !.upper = FALSE]
Keys == { CacheKey(q) : q \in Queries }

(* What the upstream does on one search.  "nocreds": no bearer token can   *)
(* be read; "rate429": HTTP 429; "http": another error status; "neterr":   *)
(* another RequestException; "badbody": a 200 whose body is not the JSON   *)
(* the handler reads; "ok": a 200 with no tweet, or with as many tweets    *)
(* as max_results allows.                                                  *)
SearchUpstreams ==
    { [kind |-> k, fill |-> "none"] : k \in {"nocreds", "rate429", "http", "neterr", "badbody"} }
    \cup { [kind |-> "ok", fill |-> f] : f \in {"none", "all"} }

(* The i-th tweet the upstream returns *)
UpstreamTweet(i) ==
    [id |-> i, like_count |-> i % 3, retweet_count |-> (i \div 3) % 2, reply_count |-> i % 2]

(* lines 73-75 and the upstream's answer to them *)
TweetsData(up, max_results) ==
    LET n == IF up.fill = "none" THEN 0 ELSE Min(max_results, API_MAX_RESULTS)
    IN List([ i \in 1..n |-> UpstreamTweet(i) ])

(* lines 108-130 *)
ScoredTweet(t) ==
    [id |-> t.id, likes |-> t.like_count, retweets |-> t.retweet_count,
     replies |-> t.reply_count,
     engagement_score |-> t.like_count + t.retweet_count + t.reply_count]

(* Reports an HTTP 429 like every other error status *)
FetchTweetsFromApiAnyStatus(up, max_results) ==
    CASE up.kind = "nocreds" -> Failure("Twitter credentials not configured")
      [] up.kind \in {"rate429", "http"} -> Failure("Twitter API error")
      [] up.kind = "neterr" -> Failure("Network error")
      [] up.kind = "badbody" -> Raised
      [] OTHER ->
           LET tweets_data == TweetsData(up, max_results)
               tweets == List([ i \in 1..Len(tweets_data) |-> ScoredTweet(tweets_data[i]) ])
               sorted == SortDesc(tweets, "engagement_score")
           IN [raised |-> FALSE, success |-> TRUE, count |-> Len(sorted),
               trends |-> sorted, error |-> ""]

(* lines 63-135; tweets is <<>> on an error *)
FetchTweetsFromApi(up, max_results) ==
    CASE up.kind = "nocreds" -> Failure("Twitter credentials not configured")
      [] up.kind = "rate429" -> Failure("Rate limited")
      [] up.kind = "http" -> Failure("Twitter API error")
      [] up.kind = "neterr" -> Failure("Network error")
      [] up.kind = "badbody" -> Raised
      [] OTHER ->
           LET tweets_data == TweetsData(up, max_results)
               tweets == List([ i \in 1..Len(tweets_data) |-> ScoredTweet(tweets_data[i]) ])
               sorted == SortDesc(tweets, "engagement_score")
           IN [raised |-> FALSE, success |-> TRUE, count |-> Len(sorted),
               trends |-> sorted, error |-> ""]

(* line 46: entry and time.time() < entry["expires"] *)
MemFresh(key) == mem[key] # <<>> /\ now < mem[key][1].expires

(* lines 44-50: the cache after the lookup; an expired entry is deleted *)
MemAfterGet(key) ==
    IF mem[key] # <<>> /\ ~MemFresh(key) THEN [mem EXCEPT ![key] = <<>>] ELSE mem

(* line 53 *)
MemSet(cache, key, data) ==
    [cache EXCEPT ![key] = << [data |-> data,
                               expires |-> now + TWITTER_CACHE_TTL * TicksPerSec] >>]

(* line 247 *)
SearchLimit(limit) == Min(limit, SEARCH_LIMIT_CAP)

SearchUpstreamOk(up) == IF up.kind \in {"ok", "badbody"} THEN 1 ELSE 0

GetTwitterForTrend(query, requested, up) ==
    /\ source = "search"
    /\ LET limit == SearchLimit(requested)
           cache_key == CacheKey(query)
           req == [Request("search", requested, FALSE, "") EXCEPT !.query = query]
       IN IF query.word = ""
          THEN /\ resp' = ErrorResp(400, "query parameter is required")
               /\ obs' = req
               /\ UNCHANGED mem
          ELSE LET seen == IF mem[cache_key] # <<>>
                           THEN [req EXCEPT !.found = TRUE,
                                   !.stored_at = mem[cache_key][1].expires
                                                   - TWITTER_CACHE_TTL * TicksPerSec]
                           ELSE req
               IN IF MemFresh(cache_key)
                  THEN LET cached == mem[cache_key][1].data
                       IN /\ resp' = [NoResp EXCEPT !.code = 200, !.body = "tweets",
                                        !.items = cached.tweets, !.count = cached.count,
                                        !.cached = TRUE, !.query = cached.query]
                          /\ mem' = [mem EXCEPT ![cache_key] =
                                       << [@[1] EXCEPT !.data.cached = TRUE] >>]
                          /\ obs' = [seen EXCEPT !.cacheRead = TRUE]
                  ELSE LET result == FetchTweetsFromApi(up, limit + SEARCH_EXTRA)
                           tweets == Take(result.trends, limit)
                           response == [query |-> query, count |-> Len(tweets),
                                        tweets |-> tweets, cached |-> FALSE]
                       IN /\ obs' = Upstream(Fetched(seen, result,
                                                     IF up.kind = "nocreds" THEN 0 ELSE 1,
                                                     SearchUpstreamOk(up)), up)
                          /\ IF result.raised
                             THEN resp' = CrashResp /\ mem' = MemAfterGet(cache_key)
                             ELSE IF result.success
                             THEN /\ mem' = MemSet(MemAfterGet(cache_key), cache_key, response)
                                  /\ resp' = [NoResp EXCEPT !.code = 200, !.body = "tweets",
                                                !.items = tweets, !.count = Len(tweets),
                                                !.query = query]
                             ELSE /\ resp' = [ErrorResp(503, result.error) EXCEPT !.query = query]
                                  /\ mem' = MemAfterGet(cache_key)
    /\ UNCHANGED <<source, now, file, trial, proc>>

-----------------------------------------------------------------------------
(* The clock, and the specification *)

Tick ==
    /\ \E t \in Instants(source) : t > now /\ now' = t
    /\ resp' = NoResp
    /\ obs' = NoObs
    /\ UNCHANGED <<source, file, mem, trial, proc>>

(* The requests in progress at once (the development server of            *)
(* api.py:421 serves every request on a thread of its own), and a request  *)
(* that has not arrived yet.  pc: "idle", "deleting" (_twitter_cache_get   *)
(* found an expired entry and is about to delete it), "waiting" (the       *)
(* handler is inside the HTTP call of its collector), "writing" (the       *)
(* handler has opened its cache file for writing and is about to dump the  *)
(* result) or "done"; hit: the lookup found a fresh entry; inflight: how   *)
(* many other requests were waiting on the same cache key when this one    *)
(* looked; calls: calls of the upstream; outcome: "cached", "ok",          *)
(* "failed" or "raised"; error: the error of a failure; doc: the document  *)
(* a writing handler is about to dump.                                     *)
Procs == 1..MaxProcs

IdleProc == [pc |-> "idle", fresh |-> FALSE, query |-> <<>>, hit |-> FALSE,
             inflight |-> 0, calls |-> 0, outcome |-> "none", error |-> "",
             doc |-> <<>>]

(* One application of find_trending_topics to given answers: its result,   *)
(* and on the way the all_hashtags of each category (<<>> for a category   *)
(* that is skipped) and final_trends before the cut of line 178            *)
NoTrial == [answers |-> <<>>, result |-> <<>>, hashtags |-> <<>>, merged |-> <<>>]

Init ==
    /\ source \in Sources
    /\ now = 0
    /\ file = [ slot \in Slots |-> <<>> ]
    /\ mem = [ key \in Keys |-> <<>> ]
    /\ resp = NoResp
    /\ obs = NoObs
    /\ trial = NoTrial
    /\ proc = [ p \in Procs |-> IdleProc ]

Next ==
    \/ Tick
    \/ \E limit \in Limits, fresh \in BOOLEAN, up \in TwitterUpstreams :
         GetTwitterTrends(limit, fresh, up)
    \/ \E up \in TwitterUpstreams : RefreshTrends(up)
    \/ \E limit \in Limits, fresh \in BOOLEAN, geo \in Geos, up \in GoogleUpstreams :
         GetGoogleTrends(limit, fresh, geo, up)
    \/ \E limit \in Limits, fresh \in BOOLEAN, geo \in Geos, up \in RssUpstreams :
         GetGoogleTrendsRss(limit, fresh, geo, up)
    \/ \E query \in Queries, limit \in SearchLimits, up \in SearchUpstreams :
         GetTwitterForTrend(query, limit, up)

Spec == Init /\ [][Next]_vars

-----------------------------------------------------------------------------
(* find_trending_topics on its own: every combination of answers of the    *)
(* three category searches, and the result of the call                     *)

Answers == { AnswerError, AnswerNoData, AnswerMalformed,
             AnswerData(SampleA), AnswerData(SampleB), AnswerData(SampleC),
             AnswerData(SampleD), AnswerData(SampleE) }

InitCollector ==
    /\ source = "twitter"
    /\ now = 0
    /\ file = [ slot \in Slots |-> <<>> ]
    /\ mem = [ key \in Keys |-> <<>> ]
    /\ resp = NoResp
    /\ obs = NoObs
    /\ trial \in { [NoTrial EXCEPT !.answers = a] : a \in [1..NUM_CATEGORIES -> Answers] }
    /\ proc = [ p \in Procs |-> IdleProc ]

Collect ==
    /\ trial.result = <<>>
    /\ LET result == FindTrendingTopics(trial.answers)
       IN trial' = IF result.raised
                   THEN [trial EXCEPT !.result = <<result>>]
                   ELSE [trial EXCEPT
                           !.result = <<result>>,
                           !.hashtags = List([ i \in 1..Len(trial.answers) |->
                                                 AllHashtags(<<trial.answers[i]>>) ]),
                           !.merged = FinalTrends(trial.answers)]
    /\ UNCHANGED <<source, now, file, mem, resp, obs, proc>>

NextCollector == Collect

SpecCollector == InitCollector /\ [][NextCollector]_vars

-----------------------------------------------------------------------------
(* The handlers step by step: the lookup of a request, then, on a miss,    *)
(* the HTTP call of its collector, during which other requests run, then   *)
(* the rest of the handler.  The requests are GET /trends/twitter,         *)
(* /trends/google, /trends/google/rss with limit StepLimit and geo         *)
(* StepGeo, and /trends/twitter/search with limit StepLimit.               *)

SERPAPI_TIMEOUT == 15
RSS_TIMEOUT == 10
SEARCH_TIMEOUT == 10

(* The timeout argument of the collector's requests.get, in seconds; <<>>  *)
(* when the call passes none (twitter_search.py:43) and so waits for the   *)
(* upstream as long as it takes.                                           *)
Timeout(src) ==
    CASE src = "twitter" -> <<>>
      [] src = "google" -> <<SERPAPI_TIMEOUT>>
      [] src = "rss" -> <<RSS_TIMEOUT>>
      [] src = "search" -> <<SEARCH_TIMEOUT>>

StepLimit == MaxLimit
StepGeo == "US"
StepQueries == { Query("ai", FALSE), Query("ai", TRUE) }

(* What the upstream may answer to the call of a waiting request *)
StepUpstreams(src) ==
    CASE src = "twitter" -> { <<AnswerError, AnswerError, AnswerError>>,
                              <<AnswerData(SampleA), AnswerError, AnswerData(SampleB)>> }
      [] src = "google" -> { [kind |-> "errfield", items |-> 0, error |-> "quota exceeded"],
                             [kind |-> "ok", items |-> 1, error |-> ""],
                             [kind |-> "ok", items |-> MaxItems, error |-> ""] }
      [] src = "rss" -> { [kind |-> "http", items |-> 0], [kind |-> "ok", items |-> MaxItems] }
      [] src = "search" -> { [kind |-> "rate429", fill |-> "none"],
                             [kind |-> "ok", fill |-> "all"] }

(* The cache key of a request: the query's key, or the slot itself *)
StepKey(src, query) == IF src = "search" THEN <<CacheKey(query[1])>> ELSE <<>>

(* api.py:197-201, 251, 294-297, 344-347: the lookup finds a fresh entry *)
StepHit(src, fresh, query) ==
    IF src = "search" THEN MemFresh(CacheKey(query[1])) ELSE ServesCache(src, fresh)

(* The requests other than p that are inside their collector's call for    *)
(* the same key                                                            *)
InFlight(p, query) ==
    { q \in Procs \ {p} : proc[q].pc = "waiting"
                           /\ StepKey(source, proc[q].query) = StepKey(source, query) }

(* Waits for a fetch already in flight for its key instead of calling *)
AfterLookupShared(hit, inflight) ==
    IF hit THEN "done" ELSE IF inflight > 0 THEN "joined" ELSE "waiting"

(* api.py:216-217, 253-258, 311-312, 357-358: a handler that does not      *)
(* return the cached entry goes on to call its collector, whatever other   *)
(* requests are doing                                                      *)
AfterLookup(hit, inflight) == IF hit THEN "done" ELSE "waiting"

(* The lookup of request p, served by the first free thread.  On a file    *)
(* slot (api.py:197-214): it passes on to the collector, or loads the      *)
(* file, which raises when the file                                        *)
(* does not hold the text of one document.  On the tweet cache             *)
(* (api.py:44-47, 251-255): it returns a fresh entry, goes on to delete an *)
(* expired one, or passes on to the collector.                             *)
Arrive(p, fresh, query) ==
    /\ proc[p].pc = "idle"
    /\ \A q \in Procs : q < p => proc[q].pc # "idle"
    /\ (source = "search") = (query # <<>>)
    /\ (source = "search") => ~fresh
    /\ LET hit == StepHit(source, fresh, query)
           inflight == Cardinality(InFlight(p, query))
           expired == source = "search" /\ ~hit /\ mem[CacheKey(query[1])] # <<>>
           unreadable == source # "search" /\ hit /\ ~Readable(source)
           pc == IF expired THEN "deleting"
                 ELSE IF unreadable THEN "done"
                 ELSE AfterLookup(hit, inflight)
       IN /\ proc' = [proc EXCEPT ![p] =
                        [IdleProc EXCEPT !.pc = pc, !.fresh = fresh, !.query = query,
                                         !.hit = hit, !.inflight = inflight,
                                         !.calls = IF pc = "waiting" THEN 1 ELSE 0,
                                         !.outcome = IF unreadable THEN "raised"
                                                     ELSE IF hit THEN "cached" ELSE "none",
                                         !.error = IF unreadable THEN "JSONDecodeError"
                                                   ELSE ""]]
          /\ mem' = IF source = "search" /\ hit
                    THEN [mem EXCEPT ![CacheKey(query[1])] =
                            << [@[1] EXCEPT !.data.cached = TRUE] >>]
                    ELSE mem
    /\ UNCHANGED <<source, now, file, resp, obs, trial>>

(* api.py:48-50: del _twitter_search_cache[key], of the entry the lookup   *)
(* found expired; a KeyError when the key is there no more.  Whatever      *)
(* stands under the key now is deleted.                                    *)
Delete(p) ==
    /\ proc[p].pc = "deleting"
    /\ LET key == CacheKey(proc[p].query[1])
           inflight == Cardinality(InFlight(p, proc[p].query))
       IN IF mem[key] # <<>>
          THEN /\ mem' = [mem EXCEPT ![key] = <<>>]
               /\ proc' = [proc EXCEPT ![p].pc = AfterLookup(FALSE, inflight),
                                       ![p].inflight = inflight,
                                       ![p].calls = IF AfterLookup(FALSE, inflight) = "waiting"
                                                    THEN 1 ELSE 0]
          ELSE /\ proc' = [proc EXCEPT ![p].pc = "done", ![p].outcome = "raised",
                                       ![p].error = "KeyError"]
               /\ UNCHANGED mem
    /\ UNCHANGED <<source, now, file, resp, obs, trial>>

(* The result of the collector of src on the upstream's answer *)
Collected(src, up) ==
    CASE src = "twitter" -> FindTrendingTopics(up)
      [] src = "google" -> GetTrendingSearches(StepGeo, StepLimit, up)
      [] src = "rss" -> FetchTrends(StepGeo, up)
      [] src = "search" -> FetchTweetsFromApi(up, SearchLimit(StepLimit) + SEARCH_EXTRA)

(* api.py:226-227, 319-320, 362-363: the document a handler writes to its  *)
(* slot                                                                    *)
StepDocument(src, result) ==
    CASE src = "twitter" -> [count |-> result.count, trends |-> Normalize(result.trends)]
      [] src = "google" -> [count |-> result.count,
                            total_available |-> result.total_available,
                            geo |-> result.geo, trends |-> result.trends,
                            cached |-> FALSE]
      [] src = "rss" -> [count |-> result.count, trends |-> result.trends,
                         geo |-> result.geo]

(* api.py:269-281: the response a search stores under its key *)
StepSearchResponse(query, result) ==
    LET tweets == Take(result.trends, SearchLimit(StepLimit))
    IN [query |-> query, count |-> Len(tweets), tweets |-> tweets, cached |-> FALSE]

(* The upstream answers the call of request p and the handler runs on: to  *)
(* its end when the result is a failure; to the open of its cache file,    *)
(* which cuts the file, when it is a success on a file slot; to its end,   *)
(* storing the response under the key, when it is a successful search.     *)
Answer(p, up) ==
    /\ proc[p].pc = "waiting"
    /\ LET result == Collected(source, up)
       IN IF result.success /\ source # "search"
          THEN /\ file' = OpenForWrite(source)
               /\ proc' = [proc EXCEPT ![p].pc = "writing",
                                       ![p].doc = << StepDocument(source, result) >>]
               /\ UNCHANGED mem
          ELSE /\ proc' = [proc EXCEPT ![p].pc = "done", ![p].outcome = Outcome(result),
                                       ![p].error = result.error]
               /\ IF result.success
                  THEN mem' = MemSet(mem, CacheKey(proc[p].query[1]),
                                     StepSearchResponse(proc[p].query[1], result))
                  ELSE UNCHANGED mem
               /\ UNCHANGED file
    /\ UNCHANGED <<source, now, resp, obs, trial>>

(* api.py:227, 320, 363: json.dump(result, f) and the close of the file,   *)
(* after which the handler answers.                                        *)
Write(p) ==
    /\ proc[p].pc = "writing"
    /\ file' = Dump(source, proc[p].doc[1])
    /\ proc' = [proc EXCEPT ![p].pc = "done", ![p].outcome = "ok", ![p].doc = <<>>]
    /\ UNCHANGED <<source, now, mem, resp, obs, trial>>

(* The request of p is answered and p takes the next one *)
Return(p) ==
    /\ proc[p].pc = "done"
    /\ proc' = [proc EXCEPT ![p] = IdleProc]
    /\ UNCHANGED <<source, now, file, mem, resp, obs, trial>>

(* The timeout of the call of request p expires: requests.get raises a     *)
(* Timeout, a RequestException, which the collector turns into a failure   *)
(* (google_trends_serpapi.py:80-85, google_trends_rss.py:95-100,           *)
(* api.py:97-98).                                                          *)
TimeOut(p) ==
    /\ proc[p].pc = "waiting"
    /\ Timeout(source) # <<>>
    /\ proc' = [proc EXCEPT ![p].pc = "done", ![p].outcome = "failed",
                            ![p].error = "Network error"]
    /\ UNCHANGED <<source, now, file, mem, resp, obs, trial>>

(* The clock advances, over the first ttl period of the source; a call     *)
(* with a timeout does not stay in flight longer than its timeout.         *)
StepTick ==
    /\ Tick
    /\ now' <= SlotTtl(source) * TicksPerSec
    /\ \A p \in Procs :
         (proc[p].pc = "waiting" /\ Timeout(source) # <<>>) =>
             now' - now < Timeout(source)[1] * TicksPerSec

NextRequests ==
    \/ StepTick
    \/ \E p \in Procs, fresh \in BOOLEAN, query \in {<<>>} \cup { <<q>> : q \in StepQueries } :
         Arrive(p, fresh, query)
    \/ \E p \in Procs : Delete(p)
    \/ \E p \in Procs, up \in StepUpstreams(source) : Answer(p, up)
    \/ \E p \in Procs : TimeOut(p)
    \/ \E p \in Procs : Write(p)
    \/ \E p \in Procs : Return(p)

(* A timeout that is set does expire; nothing obliges the upstream to      *)
(* answer, nor a request to arrive.                                        *)
SpecRequests ==
    Init /\ [][NextRequests]_vars /\ \A p \in Procs : WF_vars(TimeOut(p))

-----------------------------------------------------------------------------
(* Properties.  A property of a request speaks of the state right after    *)
(* the request: resp and obs are its response and what its handler did.    *)

(* Of the request just handled: the age, in ticks, of the entry it found,  *)
(* and the ttl of its cache, in ticks                                      *)
AgeFound == now - obs.stored_at
TtlTicks == SlotTtl(source) * TicksPerSec

(* The list stored in the cache entry the request just handled looked at *)
StoredItems ==
    IF source = "search"
    THEN mem[CacheKey(obs.query)][1].data.tweets
    ELSE file[source][1].doc.trends

IsPrefixOf(short, long) ==
    /\ Len(short) <= Len(long)
    /\ \A i \in 1..Len(short) : short[i] = long[i]

(* C1: in every cache, a non-forced request that finds an entry is served  *)
(* from the cache if and only if the entry's age is strictly below the     *)
(* ttl; at an age of exactly ttl it is a miss.                             *)
C1_HitIffAgeBelowTtl ==
    (obs.found /\ ~obs.fresh) =>
        ((resp.cached /\ obs.cacheRead /\ obs.collectorCalls = 0) <=> AgeFound < TtlTicks)

(* A non-forced request finds an entry exactly ttl old and fetches *)
C1_Witness ==
    /\ obs.found /\ ~obs.fresh
    /\ AgeFound = TtlTicks
    /\ ~resp.cached /\ obs.collectorCalls = 1

(* C2: a non-forced request on a source-level slot that finds a fresh      *)
(* entry answers with the cached payload, cached = true and the age in     *)
(* whole seconds, and makes no call of the collector nor of the upstream.  *)
C2_FreshEntryServedWithoutFetch ==
    (obs.endpoint \in Slots /\ ~obs.fresh /\ obs.found /\ AgeFound < TtlTicks) =>
        /\ resp.code = 200 /\ resp.body = "trends" /\ resp.cached
        /\ resp.cache_age_seconds * TicksPerSec <= AgeFound
        /\ AgeFound < (resp.cache_age_seconds + 1) * TicksPerSec
        /\ obs.collectorCalls = 0 /\ obs.upstreamCalls = 0
        /\ resp.count = file[source][1].doc.count
        /\ Len(resp.items) <= Len(StoredItems)
        /\ \A i \in 1..Len(resp.items) :
             resp.items[i] = IF source = "twitter" THEN NormalizeTrend(StoredItems[i])
                             ELSE StoredItems[i]

(* An entry one tick short of its ttl is served, with ttl - 1 seconds *)
C2_Witness ==
    /\ obs.endpoint \in Slots /\ ~obs.fresh /\ obs.found
    /\ AgeFound = TtlTicks - 1
    /\ resp.cached /\ resp.cache_age_seconds = SlotTtl(source) - 1
    /\ Len(resp.items) > 0

(* C3: a forced request on a source-level slot calls the collector exactly *)
(* once and does not read the cache; when the collector succeeds the slot  *)
(* holds the new result, written now.                                      *)
C3_ForcedAlwaysFetches ==
    (obs.fresh /\ obs.endpoint \in Slots \cup {"refresh"}) =>
        /\ obs.collectorCalls = 1 /\ ~obs.cacheRead /\ ~resp.cached
        /\ obs.collector = "ok" =>
             /\ resp.code = 200
             /\ Exists(source) /\ CacheAge(source) = 0
             /\ file[source][1].doc.count = resp.count
             /\ resp.body = "trends" => IsPrefixOf(resp.items, StoredItems)

(* A forced request finds a fresh entry written earlier and replaces it *)
C3_Witness ==
    /\ obs.fresh /\ obs.endpoint \in Slots /\ obs.found
    /\ 0 < AgeFound /\ AgeFound < TtlTicks
    /\ obs.collector = "ok" /\ CacheAge(source) = 0

(* C4: when the upstream fetch of a request fails, the request answers     *)
(* with a failure and leaves every cache slot exactly as it was.           *)
C4_FailedFetchLeavesCache ==
    [][ (obs'.collectorCalls = 1 /\ obs'.upstreamOk = 0) =>
          (resp'.body \in {"error", "crash"} /\ file' = file /\ mem' = mem) ]_vars

PayloadSize ==
    IF ~resp.cached /\ source = "google"
    THEN file[source][1].doc.total_available
    ELSE Len(StoredItems)

C8_LimitTruncates ==
    (resp.body = "trends" /\ resp.code = 200) =>
        Len(resp.items) = Min(obs.limit, PayloadSize)

(* C9: a tweet search with limit L answers with at most min(L, 20) tweets, *)
(* from the cache as well as freshly fetched.                              *)
C9_SearchWithinLimit ==
    (resp.body = "tweets" /\ resp.code = 200) =>
        Len(resp.items) <= Min(obs.limit, SEARCH_LIMIT_CAP)

(* C10: a read from a cache returns records identical to the ones written  *)
(* to the slot; the read adds nothing to them.                             *)
C10_RoundTrip ==
    (resp.cached /\ resp.code = 200) => IsPrefixOf(resp.items, StoredItems)

(* The trends the Twitter slot holds, <<>> when it holds none *)
StoredTwitterTrends ==
    IF Exists("twitter") THEN file["twitter"][1].doc.trends ELSE <<>>

(* C11: in every list of trends the Twitter trends path or the RSS path    *)
(* answers with, fresh or cached, after the merge, the cut to the top 20   *)
(* and the limit, the ranks are 1..N in list order.                        *)
C11_RanksContiguous ==
    (source \in {"twitter", "rss"} /\ resp.body = "trends") =>
        \A i \in 1..Len(resp.items) : resp.items[i].rank = i

(* A cached Twitter answer cut by the limit from a merge of more than      *)
(* twenty tags, and hence from a stored top 20                             *)
C11_Witness ==
    /\ source = "twitter" /\ resp.body = "trends" /\ resp.cached
    /\ resp.count > TOP_N /\ Len(StoredTwitterTrends) = TOP_N
    /\ Len(resp.items) = MaxLimit /\ obs.limit = MaxLimit

(* C12: along every list of trends find_trending_topics returns (as the    *)
(* Twitter handlers answer with it and store it) the rank increases        *)
(* strictly and the velocity_score never increases; the i-th trend of a    *)
(* fetched RSS answer has rank i and is the i-th item of the feed.         *)
C12_RankFollowsScore ==
    /\ source = "twitter" =>
          \A trends \in {resp.items, StoredTwitterTrends} :
             \A k, l \in 1..Len(trends) :
                k < l => /\ trends[k].rank < trends[l].rank
                         /\ trends[k].velocity_score >= trends[l].velocity_score
    /\ (source = "rss" /\ resp.body = "trends") =>
          \A i \in 1..Len(resp.items) :
             /\ resp.items[i].rank = i
             /\ resp.items[i].topic = <<resp.geo, i>>

(* A stored Twitter result whose scores differ, with a tie among them *)
C12_Witness ==
    /\ source = "twitter" /\ Len(StoredTwitterTrends) = TOP_N
    /\ \E k \in 1..(TOP_N - 1) :
         StoredTwitterTrends[k].velocity_score > StoredTwitterTrends[k + 1].velocity_score
    /\ \E k \in 1..(TOP_N - 1) :
         StoredTwitterTrends[k].velocity_score = StoredTwitterTrends[k + 1].velocity_score

(* C13: no collector lets an exception escape to the handler that called   *)
(* it: every fetch ends with a result, a success or a tagged failure.      *)
C13_NoExceptionEscapes ==
    obs.collectorCalls = 1 => (obs.collector \in {"ok", "failed"} /\ resp.body # "crash")

(* The upstream of the aggregator answered with a body that carries an     *)
(* error key                                                               *)
BodyHasError ==
    /\ source = "google" /\ obs.upstream # <<>>
    /\ obs.upstream[1].kind \in {"httperr", "errfield"}

(* C14 as stated: whenever the body of the upstream's answer carries an    *)
(* error key, whatever the status, the result is a failure that surfaces   *)
(* the value of that key, the handler answers with a failure and the       *)
(* aggregator slot is not written.                                         *)
C14_BodyErrorSurfaced ==
    BodyHasError =>
        /\ obs.collector = "failed"
        /\ resp.code = 500 /\ resp.body = "error"
        /\ resp.error = obs.upstream[1].error

(* C14, amended: a body with an error key under a success status gives a   *)
(* failure that surfaces the value of the key; under an error status the   *)
(* failure carries the HTTP error instead.  Either way the handler         *)
(* answers 500 and the aggregator slot stays as the request found it.      *)
C14_BodyErrorSurfacedOn200 ==
    BodyHasError =>
        /\ obs.collector = "failed"
        /\ resp.code = 500 /\ resp.body = "error" /\ resp.items = <<>>
        /\ resp.error = IF obs.upstream[1].kind = "errfield"
                        THEN obs.upstream[1].error ELSE "HTTPError"
        /\ Exists("google") = obs.found
        /\ obs.found => file["google"][1].mtime = obs.stored_at

(* A 200 with an error key, on a request that found an entry in the slot *)
C14_Witness ==
    /\ BodyHasError /\ obs.upstream[1].kind = "errfield"
    /\ obs.upstream[1].error = "quota exceeded" /\ resp.error = "quota exceeded"
    /\ obs.found /\ obs.upstreamCalls = 1

RateLimited == "Rate limited"

(* The request just handled was a tweet search answered by an HTTP 429 *)
Got429(o) == o.endpoint = "search" /\ o.upstream # <<>> /\ o.upstream[1].kind = "rate429"

(* C15: a tweet search the upstream answers with HTTP 429 makes one        *)
(* upstream call and answers with the rate-limit error, which no other     *)
(* failure of the upstream produces; nothing is stored under the query's   *)
(* key, and the next search for that key calls the collector again.        *)
C15_RateLimitDistinct ==
    [][ /\ Got429(obs') =>
             /\ resp'.code = 503 /\ resp'.body = "error" /\ resp'.error = RateLimited
             /\ obs'.upstreamCalls = 1
             /\ mem'[CacheKey(obs'.query)] = <<>>
        /\ (obs'.endpoint = "search" /\ obs'.upstream # <<>> /\ ~Got429(obs')) =>
             resp'.error # RateLimited
        /\ (Got429(obs) /\ obs'.endpoint = "search" /\ obs'.query.word # ""
                /\ CacheKey(obs'.query) = CacheKey(obs.query)) =>
             (obs'.collectorCalls = 1 /\ ~resp'.cached) ]_vars

(* A 429 on a search that found an expired entry under its key *)
C15_Witness ==
    /\ Got429(obs) /\ obs.found
    /\ resp.error = RateLimited /\ mem[CacheKey(obs.query)] = <<>>

(* C19: the tweets of a fetched search answer carry likes + retweets +     *)
(* replies as engagement_score, are the highest-scored tweets of the       *)
(* upstream's answer in descending order of score, and tweets of equal    *)
(* score stand in the order the upstream gave them.                        *)
C19_TweetsScoredStable ==
    (source = "search" /\ resp.body = "tweets" /\ ~resp.cached) =>
        LET tweets == resp.items
            given == TweetsData(obs.upstream[1], SearchLimit(obs.limit) + SEARCH_EXTRA)
            score(t) == t.like_count + t.retweet_count + t.reply_count
            place(id) == CHOOSE i \in 1..Len(given) : given[i].id = id
        IN /\ Len(tweets) = Min(SearchLimit(obs.limit), Len(given))
           /\ \A k \in 1..Len(tweets) :
                /\ \E i \in 1..Len(given) : given[i].id = tweets[k].id
                /\ tweets[k].engagement_score
                     = tweets[k].likes + tweets[k].retweets + tweets[k].replies
                /\ tweets[k].engagement_score = score(given[place(tweets[k].id)])
           /\ \A k, l \in 1..Len(tweets) :
                k < l => \/ tweets[k].engagement_score > tweets[l].engagement_score
                         \/ /\ tweets[k].engagement_score = tweets[l].engagement_score
                            /\ place(tweets[k].id) < place(tweets[l].id)
           /\ \A i \in 1..Len(given) :
                (\A k \in 1..Len(tweets) : tweets[k].id # given[i].id) =>
                    \A k \in 1..Len(tweets) :
                       \/ tweets[k].engagement_score > score(given[i])
                       \/ /\ tweets[k].engagement_score = score(given[i])
                          /\ place(tweets[k].id) < i

(* A fetched answer with tweets of equal score, and with a tweet that a    *)
(* later one of the upstream's answer outscores                            *)
C19_Witness ==
    /\ source = "search" /\ resp.body = "tweets" /\ ~resp.cached
    /\ Len(resp.items) = SEARCH_LIMIT_CAP
    /\ \E k \in 1..(Len(resp.items) - 1) :
         /\ resp.items[k].engagement_score = resp.items[k + 1].engagement_score
         /\ resp.items[k].id < resp.items[k + 1].id
    /\ \E k \in 1..(Len(resp.items) - 1) : resp.items[k].id > resp.items[k + 1].id
    /\ \E k \in 1..Len(resp.items) : resp.items[k].replies > 0 /\ resp.items[k].retweets > 0

(* C23: a fetch of the feed that succeeds at the HTTP and parse level but   *)
(* yields zero entries is a failure: the request is answered with an error *)
(* and the RSS slot is left as it was.                                     *)
C23_EmptyFeedFails ==
    (source = "rss" /\ obs.upstream = << [kind |-> "ok", items |-> 0] >>) =>
        /\ resp.code # 200 /\ resp.body = "error"
        /\ Exists("rss") = obs.found
        /\ obs.found => file["rss"][1].mtime = obs.stored_at

(* C26: in every successful answer of a trends or search endpoint, cached  *)
(* or fresh, count is the number of records of the returned list.          *)
C26_CountIsLength ==
    (resp.code = 200 /\ resp.body \in {"trends", "tweets"}) =>
        resp.count = Len(resp.items)

(* C27: every successful answer of the aggregator and RSS endpoints to a   *)
(* request for a geo carries data fetched for that geo, from the cache as  *)
(* well as freshly fetched.                                                *)
C27_GeoOfRequest ==
    (source \in {"google", "rss"} /\ resp.code = 200 /\ resp.body = "trends") =>
        /\ resp.geo = obs.geo
        /\ \A i \in 1..Len(resp.items) :
              (IF source = "google" THEN resp.items[i].query[1] ELSE resp.items[i].geo)
                 = obs.geo

(* C28: caching is transparent to the limit: a cache hit with limit L >= 1 *)
(* returns as many records as a fresh fetch with limit L returns from the  *)
(* same upstream data: min(L, total_available) trending searches, and      *)
(* min(L, 20) tweets when the upstream has tweets for the query.           *)
C28_CacheTransparentToLimit ==
    (resp.cached /\ resp.code = 200 /\ obs.limit >= 1) =>
        /\ source = "google" =>
              Len(resp.items) = Min(obs.limit, file["google"][1].doc.total_available)
        /\ source = "search" =>
              Len(resp.items) = IF StoredItems = <<>> THEN 0 ELSE SearchLimit(obs.limit)

-----------------------------------------------------------------------------
(* Properties of the requests in progress, on SpecRequests *)

(* C16: every call of a collector is bounded by a timeout: whenever a      *)
(* request is inside the call, the timeout can expire, so that the request *)
(* returns even if the upstream never answers; and a request ended by the  *)
(* timeout returns a network-error failure, not a crash, after one call.   *)
C16_EveryCallTimesOut ==
    \A p \in Procs :
        /\ proc[p].pc = "waiting" => ENABLED TimeOut(p)
        /\ (proc[p].pc = "done" /\ proc[p].error = "Network error") =>
              (proc[p].outcome = "failed" /\ proc[p].calls = 1)

(* C20: no request defers to a fetch in flight: every request that finds   *)
(* no fresh entry under its key makes an upstream call of its own, however *)
(* many requests are inside a call for that key already, so that k         *)
(* requests missing together make k calls.                                 *)
C20_NoInFlightGuard ==
    \A p \in Procs :
        (proc[p].pc \notin {"idle", "deleting"} /\ ~proc[p].hit
            /\ proc[p].error # "KeyError") =>
            (proc[p].pc \in {"waiting", "writing", "done"} /\ proc[p].calls = 1)

(* Non-forced searches for one key, in two letter cases, all missed before *)
(* any stored its result, the last with all the others in flight, and all  *)
(* fetched                                                                 *)
C20_Witness ==
    /\ source = "search"
    /\ \A p \in Procs :
         /\ proc[p].pc = "done" /\ ~proc[p].fresh /\ ~proc[p].hit
         /\ proc[p].calls = 1 /\ proc[p].outcome = "ok"
    /\ \E p \in Procs : proc[p].inflight = MaxProcs - 1
    /\ \E p, q \in Procs : proc[p].query # proc[q].query

(* C21: writes to a cache slot are last-writer-wins: once no request is    *)
(* between the open and the dump of a cache file, every slot that exists   *)
(* holds the text of exactly one document, the one dumped last, and every  *)
(* entry of the tweet cache is one stored response.                        *)
C21_LastWriterWins ==
    (\A p \in Procs : proc[p].pc # "writing") =>
        /\ \A slot \in Slots : Exists(slot) => Readable(slot)
        /\ \A key \in Keys : mem[key] # <<>> => mem[key][1].data.count = Len(mem[key][1].data.tweets)

(* C24: a reader never observes a partially written slot: every non-forced *)
(* request that finds the file of its slot present and fresh returns a     *)
(* cached document, whatever the other requests are doing.                 *)
C24_ReaderSeesWholeFile ==
    \A p \in Procs :
        (source \in Slots /\ proc[p].pc = "done" /\ proc[p].hit) =>
            (proc[p].outcome = "cached" /\ proc[p].error = "")

(* C25: _twitter_cache_get is safe under concurrent calls: no search       *)
(* request fails in its lookup, however the lookups, deletes and stores of *)
(* the requests for one key interleave.                                    *)
C25_CacheGetSafe ==
    \A p \in Procs :
        (source = "search" /\ proc[p].pc = "done") => proc[p].outcome # "raised"

-----------------------------------------------------------------------------
(* Properties of find_trending_topics, on the trials of SpecCollector *)

TrialDone == trial.result # <<>>

(* The categories whose search answered with tweets *)
Successful == { i \in 1..Len(trial.answers) : trial.answers[i].kind = "data" }

(* The (category, position) pairs of the per-category hashtag records, *)
(* over the successful categories, that carry the given tag            *)
RecordsOf(perCategory, tag) ==
    { p \in UNION { { <<i, j>> : j \in 1..Len(perCategory[i]) } : i \in Successful } :
        perCategory[p[1]][p[2]].hashtag = tag }

RECURSIVE SumRecords(_, _, _)
SumRecords(perCategory, pairs, field) ==
    IF pairs = {} THEN 0
    ELSE LET p == CHOOSE p \in pairs : TRUE
         IN perCategory[p[1]][p[2]][field] + SumRecords(perCategory, pairs \ {p}, field)

(* C6: when the search errors for every category, find_trending_topics     *)
(* returns a failure; it returns success only if a category succeeded.     *)
C6_AllErrorsFail ==
    (TrialDone /\ \A i \in 1..Len(trial.answers) : trial.answers[i].kind = "error") =>
        ~trial.result[1].success

(* C7: the result is the merge of the successful categories only: every    *)
(* tag once, its mentions, total_engagement and velocity_score the sums    *)
(* of its per-category values, the records in descending order of          *)
(* velocity_score, cut to the 20 highest; a failed category adds nothing   *)
(* and does not stop the others.                                           *)
C7_MergeOfSuccessful ==
    (TrialDone /\ \A i \in 1..Len(trial.answers) : trial.answers[i].kind # "malformed") =>
        LET trends == trial.result[1].trends
            perCategory == List([ i \in 1..Len(trial.answers) |->
                                    IF i \in Successful
                                    THEN ExtractHashtags(trial.answers[i].data)
                                    ELSE <<>> ])
            tags == UNION { { perCategory[i][j].hashtag : j \in 1..Len(perCategory[i]) } :
                            i \in Successful }
            inResult == { trends[k].hashtag : k \in 1..Len(trends) }
            total(tag) == SumRecords(perCategory, RecordsOf(perCategory, tag), "velocity_score")
        IN /\ ~trial.result[1].raised
           /\ \A k, l \in 1..Len(trends) : trends[k].hashtag = trends[l].hashtag => k = l
           /\ inResult \subseteq tags
           /\ Len(trends) = Min(Cardinality(tags), TOP_N)
           /\ \A k \in 1..Len(trends) :
                LET pairs == RecordsOf(perCategory, trends[k].hashtag)
                IN /\ trends[k].mentions = SumRecords(perCategory, pairs, "mentions")
                   /\ trends[k].total_engagement
                        = SumRecords(perCategory, pairs, "total_engagement")
                   /\ trends[k].velocity_score
                        = SumRecords(perCategory, pairs, "velocity_score")
           /\ \A k \in 1..(Len(trends) - 1) :
                trends[k].velocity_score >= trends[k + 1].velocity_score
           /\ \A tag \in tags \ inResult :
                \A k \in 1..Len(trends) : trends[k].velocity_score >= total(tag)

(* One category fails, the two others share a tag and together carry more  *)
(* than 20 tags                                                            *)
C7_Witness ==
    /\ TrialDone
    /\ \E i \in 1..Len(trial.answers) : trial.answers[i].kind = "error"
    /\ Cardinality(Successful) = 2
    /\ trial.result[1].count > TOP_N
    /\ Len(trial.result[1].trends) = TOP_N
    /\ \E k \in 1..TOP_N : trial.result[1].trends[k].mentions = 2

(* The orders in which the categories can be searched *)
CategoryOrders ==
    { f \in [1..NUM_CATEGORIES -> 1..NUM_CATEGORIES] :
        \A i, j \in 1..NUM_CATEGORIES : f[i] = f[j] => i = j }

Permuted(answers, f) == List([ i \in 1..Len(answers) |-> answers[f[i]] ])

(* The merged values of every tag, whatever the order of the records *)
Totals(trends) ==
    { [hashtag |-> trends[k].hashtag, mentions |-> trends[k].mentions,
       total_engagement |-> trends[k].total_engagement,
       velocity_score |-> trends[k].velocity_score] : k \in 1..Len(trends) }

Scores(trends) == List([ k \in 1..Len(trends) |-> trends[k].velocity_score ])

(* C17: whatever the order in which the categories are searched, and       *)
(* however their hashtag lists are grouped before they are merged, every   *)
(* tag gets the same mentions, total_engagement and velocity_score; the    *)
(* sorted list differs at most in the order of records of equal score.     *)
C17_MergeCommutes ==
    (TrialDone /\ ~trial.result[1].raised) =>
        /\ \A f \in CategoryOrders :
             LET other == FinalTrends(Permuted(trial.answers, f))
             IN /\ Totals(other) = Totals(trial.merged)
                /\ Scores(other) = Scores(trial.merged)
        /\ LET h == trial.hashtags
           IN /\ Totals(Combine(Combine(h[1] \o h[2]) \o h[3])) = Totals(trial.merged)
              /\ Totals(Combine(h[1] \o Combine(h[2] \o h[3]))) = Totals(trial.merged)
              /\ Totals(Combine(Combine(h[3] \o h[1]) \o h[2])) = Totals(trial.merged)

(* Three successful categories, two of which give a common tag different   *)
(* values                                                                  *)
C17_Witness ==
    /\ TrialDone /\ Cardinality(Successful) = NUM_CATEGORIES
    /\ \E i, j \in Successful :
         /\ i < j
         /\ \E k \in 1..Len(trial.hashtags[i]), l \in 1..Len(trial.hashtags[j]) :
              /\ trial.hashtags[i][k].hashtag = trial.hashtags[j][l].hashtag
              /\ trial.hashtags[i][k].velocity_score # trial.hashtags[j][l].velocity_score
    /\ Len(trial.merged) > TOP_N

(* The tweets of a sample that carry the tag, in any letter case *)
PostsWith(tweets, tag) ==
    { k \in 1..Len(tweets) :
        \E h \in 1..Len(tweets[k].hashtags) : Lower(tweets[k].hashtags[h]) = tag }

EngagementOf(tweets) == List([ k \in 1..Len(tweets) |-> [engagement |-> Engagement(tweets[k])] ])

(* C22: extract_hashtags gives every lower-cased tag one record, with      *)
(* mentions = the number of sampled posts carrying the tag and             *)
(* total_engagement = the sum over those posts of likes + 2 * retweets +   *)
(* replies; and for the two posts {10,5,2,[#a]}, {1,0,0,[#A,#b]} it gives  *)
(* #a with mentions 2, total 23, avg 11.5, velocity 23 before #b with 1,   *)
(* 1, 1, 1.                                                                *)
C22_ExtractHashtags ==
    TrialDone =>
        \A i \in Successful :
            LET tweets == trial.answers[i].data
                recs == trial.hashtags[i]
            IN /\ \A j \in 1..Len(recs) :
                    /\ recs[j].hashtag = Lower(recs[j].hashtag)
                    /\ \A k \in 1..Len(recs) : recs[k].hashtag = recs[j].hashtag => k = j
                    /\ recs[j].mentions = Cardinality(PostsWith(tweets, recs[j].hashtag))
                    /\ recs[j].total_engagement =
                          SumOver(EngagementOf(tweets), PostsWith(tweets, recs[j].hashtag),
                                  "engagement")
               /\ tweets = SampleA =>
                    /\ Len(recs) = 2
                    /\ recs[1].hashtag = Tag(1) /\ recs[1].mentions = 2
                    /\ recs[1].total_engagement = 23 /\ 2 * recs[1].avg_engagement = 23
                    /\ recs[1].velocity_score = 23
                    /\ recs[2].hashtag = Tag(2) /\ recs[2].mentions = 1
                    /\ recs[2].total_engagement = 1 /\ recs[2].avg_engagement = 1
                    /\ recs[2].velocity_score = 1

(* C18: every record of extract_hashtags has velocity_score = mentions *   *)
(* avg_engagement and avg_engagement = total_engagement / mentions, and    *)
(* so velocity_score = total_engagement, also when mentions does not       *)
(* divide total_engagement.                                                *)
C18_VelocityArithmetic ==
    TrialDone =>
        \A i \in 1..Len(trial.hashtags) : \A j \in 1..Len(trial.hashtags[i]) :
            LET r == trial.hashtags[i][j]
            IN /\ r.mentions > 0
               /\ r.velocity_score = r.mentions * r.avg_engagement
               /\ r.avg_engagement * r.mentions = r.total_engagement
               /\ r.velocity_score = r.total_engagement

====
